---- MODULE Spec2Model ----
(***************************************************************************)
(* Model of the airbrake flight computer of ACS_2021.                      *)
(*                                                                         *)
(*   src/acs.py      the control loop (main) and the module initialisation *)
(*   src/sensors.py  sensor initialisation and the acquisition step        *)
(*   src/utils.py    string_to_int                                         *)
(*                                                                         *)
(* acs.py is modelled on its real-sensor branch (lines 29-31), the one     *)
(* that runs src/sensors.py.  The modules acs.py imports and that are not  *)
(* part of the sources (data_manager, data_filter, state, controller,      *)
(* servo, scribe) are modelled from the design document.                   *)
(***************************************************************************)
EXTENDS Integers, Sequences, FiniteSets, TLC

VARIABLES
    active_sensors,  \* manager.active_sensors: the configured sensor list
    pc,              \* the statement the program is about to execute
    i,               \* position of the running for-loop in active_sensors
    add_data_calls,  \* the names add_data was called with, in call order
    store,           \* Data_Manager: channel name -> current value
    writes,          \* channels written by the current cycle's read_sensors
    got,             \* sensing element -> what its device read returned
    done,            \* stages of the current cycle that have finished
    est,             \* the filtered estimate [alt, vel, acc]
    phase,           \* state module: the flight phase
    count,           \* state module: consecutive qualifying samples
    edge,            \* state module: a transition occurred in this cycle
    prev_vel,        \* state module: filtered velocity of the previous cycle
    prev_qual,       \* previous sample satisfied the guard of its phase
    extension,       \* controller: extension, in 1/ExtScale of full travel
    integ,           \* controller: integrator
    prev_err,        \* controller: error of the previous step
    servo_angle,     \* main: the local servo_angle
    servo_pos,       \* servo: the angle last commanded
    servo_cleaned,   \* servo.clean_servo has run
    in_str,          \* utils.string_to_int: its argument
    out              \* utils.string_to_int: its outcome

vars == <<active_sensors, pc, i, add_data_calls, store, writes, got, done,
          est, phase, count, edge, prev_vel, prev_qual, extension, integ,
          prev_err, servo_angle, servo_pos, servo_cleaned, in_str, out>>

\* the variables of utils.py
utilVars == <<in_str, out>>

sensorVars == <<active_sensors, add_data_calls, store, writes, got>>
flightVars == <<est, phase, count, edge, prev_vel, prev_qual, extension,
                integ, prev_err, servo_angle, servo_pos>>
stateVars == <<phase, count, edge, prev_vel, prev_qual>>
ctrlVars == <<extension, integ, prev_err>>

----------------------------------------------------------------------------
(* Bounds of the model *)

\* longest active-sensor list explored
MaxSensors == 3

\* consecutive qualifying samples a debounced transition needs
DebounceCount == 2

\* longest argument of string_to_int explored
MaxLen == 3

----------------------------------------------------------------------------
(* Channels and values *)

\* the sensor names the dispatch of sensors.py knows, and one it does not
SensorNames == {"IMU", "Accelerometer", "Altimeter", "GPS"}

ScalarChannels == {"time", "mpl_altitude"}

\* A value is the tuple of its components: a scalar has one, a vector three.
\* the zero value of a channel's arity
ZeroOf(name) == IF name \in ScalarChannels THEN <<0>> ELSE <<0, 0, 0>>

\* the number of components of a value
Arity(v) == Len(v)

\* the channels registered in the store
Registered == DOMAIN store

\* the sensing elements behind the device reads
Elements == {"adxl", "mpl", "imu_accel", "imu_gyro", "imu_magnet"}

\* the outcomes of a device read: a value of S, or an exception
Outcomes(S) == {[status |-> "ok", value |-> v] : v \in S} \cup {[status |-> "failed"]}

NotRead == [status |-> "not_read"]

\* string_to_int has not been called
NotCalled == [status |-> "not_called"]

\* what the device reads can return
TimeValues == {<<1>>, <<2>>}
AdxlReadings == {<<0, 0, 1>>, <<0, 0, 3>>}
AltitudeReadings == {<<4>>, <<7>>}
ImuAccelReadings == {<<1, 0, 0>>}
ImuGyroReadings == {<<0, 2, 0>>}
ImuMagnetReadings == {<<0, 0, 3>>}

\* all sensor lists of at most n names
RECURSIVE ListsUpTo(_)
ListsUpTo(n) ==
    IF n = 0 THEN {<<>>}
    ELSE LET shorter == ListsUpTo(n - 1)
         IN  shorter \cup {Append(l, s) : l \in {x \in shorter : Len(x) = n - 1},
                                          s \in SensorNames}

\* acs.py line 22
ConfiguredSensors == <<"Accelerometer", "Altimeter">>

----------------------------------------------------------------------------
(* Data_Manager *)

\* add_data, called with each name of names in turn: a name already
\* registered fails with DuplicateChannel and ends the calls.
RECURSIVE AddData(_, _, _)
AddData(names, calls, st) ==
    IF names = <<>> THEN [calls |-> calls, store |-> st, raised |-> FALSE]
    ELSE LET n == Head(names)
         IN  IF n \in DOMAIN st
             THEN [calls |-> Append(calls, n), store |-> st, raised |-> TRUE]
             ELSE AddData(Tail(names), Append(calls, n), st @@ (n :> ZeroOf(n)))

\* update_field / update_dict_field, called with each <<name, value>> of
\* ws in turn: an unregistered name fails with UnknownChannel, a value of
\* another arity than the channel's with ArityMismatch.
RECURSIVE UpdateFields(_, _, _)
UpdateFields(ws, wr, st) ==
    IF ws = <<>> THEN [writes |-> wr, store |-> st, raised |-> FALSE]
    ELSE LET n == Head(ws)[1]
             v == Head(ws)[2]
         IN  IF n \notin DOMAIN st \/ Arity(v) # Arity(st[n])
             THEN [writes |-> wr, store |-> st, raised |-> TRUE]
             ELSE UpdateFields(Tail(ws), Append(wr, n), [st EXCEPT ![n] = v])

----------------------------------------------------------------------------
(* sensors.py: initialisation *)

initialize_accelerometer == <<"adxl_acceleration">>

initialize_altimeter == <<"mpl_altitude">>

\* initialize_imu with the first add_data line pasted twice
initialize_imu_pasted == <<"mpu_acceleration", "mpu_acceleration", "mpu_magnetometer">>

\* initialize_imu without its last add_data line
initialize_imu_short == <<"mpu_acceleration", "mpu_gyroscope">>

initialize_imu == <<"mpu_acceleration", "mpu_gyroscope", "mpu_magnetometer">>

initialize_timer == <<"time">>

\* the dispatch of initialize_sensors with one name misspelt
InitDispatchMisspelt(sensor) ==
    IF sensor = "IMU" THEN initialize_imu
    ELSE IF sensor = "Accelerometer" THEN initialize_accelerometer
    ELSE IF sensor = "Altimiter" THEN initialize_altimeter
    ELSE <<>>

\* the channels one iteration of the loop of initialize_sensors registers
InitDispatch(sensor) ==
    IF sensor = "IMU" THEN initialize_imu
    ELSE IF sensor = "Accelerometer" THEN initialize_accelerometer
    ELSE IF sensor = "Altimeter" THEN initialize_altimeter
    ELSE <<>>

\* register names; an exception of the store aborts the start-up
Register(names, next_pc, next_i) ==
    LET r == AddData(names, add_data_calls, store)
    IN  /\ add_data_calls' = r.calls
        /\ store' = r.store
        /\ IF r.raised
           THEN pc' = "aborted" /\ i' = i
           ELSE pc' = next_pc /\ i' = next_i

InitializeTimer ==
    /\ pc = "initialize_sensors"
    /\ Register(initialize_timer, "initialize_loop", 1)
    /\ UNCHANGED <<active_sensors, writes, got, done, flightVars, servo_cleaned, utilVars>>

InitializeSensor ==
    /\ pc = "initialize_loop"
    /\ i <= Len(active_sensors)
    /\ Register(InitDispatch(active_sensors[i]), "initialize_loop", i + 1)
    /\ UNCHANGED <<active_sensors, writes, got, done, flightVars, servo_cleaned, utilVars>>

InitializeSensorsReturn ==
    /\ pc = "initialize_loop"
    /\ i > Len(active_sensors)
    /\ pc' = "initialize_modules"
    /\ UNCHANGED <<active_sensors, i, add_data_calls, store, writes, got, done,
                   flightVars, servo_cleaned, utilVars>>

----------------------------------------------------------------------------
(* sensors.py: the acquisition step *)

\* try: value = <device read>  except: value = <zero>
ValueOr(outcome, zero) == IF outcome.status = "ok" THEN outcome.value ELSE zero

\* the store writes of read_accelerometer, given what the device read did
read_accelerometer(acceleration) ==
    <<  <<"adxl_acceleration", ValueOr(acceleration, <<0, 0, 0>>)>>  >>

\* read_altimeter with the except branch of read_accelerometer
read_altimeter_vector(altitude) ==
    <<  <<"mpl_altitude", ValueOr(altitude, <<0, 0, 0>>)>>  >>

\* the store writes of read_altimeter
read_altimeter(altitude) ==
    <<  <<"mpl_altitude", ValueOr(altitude, <<0>>)>>  >>

\* read_imu with the name of its last write copied from the first
read_imu_same_name(readAccel, readGyro, readMagnet) ==
    LET accel == ValueOr(readAccel, <<0, 0, 0>>)
        magnet_val == ValueOr(readGyro, <<0, 0, 0>>)
        gyro_val == ValueOr(readMagnet, <<0, 0, 0>>)
    IN  << <<"mpu_acceleration", accel>>,
           <<"mpu_magnetometer", magnet_val>>,
           <<"mpu_acceleration", gyro_val>> >>

\* the store writes of read_imu: readAccel() lands in accel, readGyro() in
\* magnet_val and readMagnet() in gyro_val
read_imu(readAccel, readGyro, readMagnet) ==
    LET accel == ValueOr(readAccel, <<0, 0, 0>>)
        magnet_val == ValueOr(readGyro, <<0, 0, 0>>)
        gyro_val == ValueOr(readMagnet, <<0, 0, 0>>)
    IN  << <<"mpu_acceleration", accel>>,
           <<"mpu_magnetometer", magnet_val>>,
           <<"mpu_gyroscope", gyro_val>> >>

\* the store writes of read_time
read_time(current_time) == <<  <<"time", current_time>>  >>

\* perform the writes ws; an exception of the store leaves main
Update(ws, next_pc, next_i) ==
    LET r == UpdateFields(ws, writes, store)
    IN  /\ writes' = r.writes
        /\ store' = r.store
        /\ IF r.raised
           THEN pc' = "exited" /\ i' = i
           ELSE pc' = next_pc /\ i' = next_i

\* read_sensors, line 195: the first statement of a cycle
ReadTime ==
    /\ pc = "read_sensors"
    /\ \E t \in TimeValues :
          LET r == UpdateFields(read_time(t), <<>>, store)
          IN  /\ writes' = r.writes
              /\ store' = r.store
              /\ IF r.raised
                 THEN pc' = "exited" /\ i' = i
                 ELSE pc' = "read_loop" /\ i' = 1
    /\ got' = [e \in Elements |-> NotRead]
    /\ done' = <<>>
    /\ UNCHANGED <<active_sensors, add_data_calls, flightVars, servo_cleaned, utilVars>>

ReadImu ==
    /\ pc = "read_loop"
    /\ i <= Len(active_sensors)
    /\ active_sensors[i] = "IMU"
    /\ \E a \in Outcomes(ImuAccelReadings), g \in Outcomes(ImuGyroReadings),
          m \in Outcomes(ImuMagnetReadings) :
          /\ Update(read_imu(a, g, m), "read_loop", i + 1)
          /\ got' = [got EXCEPT !["imu_accel"] = a, !["imu_gyro"] = g,
                                !["imu_magnet"] = m]
    /\ UNCHANGED <<active_sensors, add_data_calls, done, flightVars, servo_cleaned, utilVars>>

ReadAccelerometer ==
    /\ pc = "read_loop"
    /\ i <= Len(active_sensors)
    /\ active_sensors[i] = "Accelerometer"
    /\ \E a \in Outcomes(AdxlReadings) :
          /\ Update(read_accelerometer(a), "read_loop", i + 1)
          /\ got' = [got EXCEPT !["adxl"] = a]
    /\ UNCHANGED <<active_sensors, add_data_calls, done, flightVars, servo_cleaned, utilVars>>

ReadAltimeter ==
    /\ pc = "read_loop"
    /\ i <= Len(active_sensors)
    /\ active_sensors[i] = "Altimeter"
    /\ \E h \in Outcomes(AltitudeReadings) :
          /\ Update(read_altimeter(h), "read_loop", i + 1)
          /\ got' = [got EXCEPT !["mpl"] = h]
    /\ UNCHANGED <<active_sensors, add_data_calls, done, flightVars, servo_cleaned, utilVars>>

\* a name none of the branches of lines 197-202 matches
ReadOther ==
    /\ pc = "read_loop"
    /\ i <= Len(active_sensors)
    /\ active_sensors[i] \notin {"IMU", "Accelerometer", "Altimeter"}
    /\ i' = i + 1
    /\ UNCHANGED <<active_sensors, pc, add_data_calls, store, writes, got, done,
                   flightVars, servo_cleaned, utilVars>>

\* the loop of read_sensors ending one sensor early
ReadSensorsReturnEarly ==
    /\ pc = "read_loop"
    /\ i >= Len(active_sensors)
    /\ pc' = "filter_data"
    /\ done' = Append(done, "read_sensors")
    /\ UNCHANGED <<active_sensors, i, add_data_calls, store, writes, got,
                   flightVars, servo_cleaned, utilVars>>

ReadSensorsReturn ==
    /\ pc = "read_loop"
    /\ i > Len(active_sensors)
    /\ pc' = "filter_data"
    /\ done' = Append(done, "read_sensors")
    /\ UNCHANGED <<active_sensors, i, add_data_calls, store, writes, got,
                   flightVars, servo_cleaned, utilVars>>

----------------------------------------------------------------------------
(* Configuration of the flight modules (in the units of the model) *)

\* filtered vertical acceleration above which launch is detected
LaunchThreshold == 2

\* filtered vertical acceleration below which burnout is detected
BurnoutThreshold == 1

\* half-width of the near-zero band of altitude and velocity
LandedBand == 1

\* the extension fraction 1.0, in the controller's integer units
ExtScale == 4

TargetApogee == 6

Kp == 1

Ki == 1

Kd == 1

\* servo calibration: the angle of the retracted position, and the angle
\* per unit of extension
ServoRetracted == 10

ServoStep == 20

\* the values a filtered estimate can take
AltValues == {0, 5}
VelValues == {-2, 0, 2}
AccValues == {0, 3}
EstSpace == [alt : AltValues, vel : VelValues, acc : AccValues]

----------------------------------------------------------------------------
(* state: the flight-phase state machine *)

Phases == <<"Idle", "PoweredAscent", "Coast", "Apogee", "Descent", "Landed">>

Rank(p) == CHOOSE k \in 1..Len(Phases) : Phases[k] = p

NextPhase(p) == Phases[Rank(p) + 1]

Abs(x) == IF x < 0 THEN -x ELSE x

\* the sample e lies across the threshold that leaves phase p
Crossed(p, e) ==
    CASE p = "Idle" -> e.acc > LaunchThreshold
      [] p = "PoweredAscent" -> e.acc < BurnoutThreshold
      [] p = "Coast" -> e.vel <= 0
      [] p = "Apogee" -> e.vel < 0
      [] p = "Descent" -> Abs(e.alt) <= LandedBand /\ Abs(e.vel) <= LandedBand
      [] OTHER -> FALSE

\* the guard of the transition that leaves phase p
Guard(p, e, pv) ==
    IF p = "Coast" THEN pv > 0 /\ Crossed(p, e) ELSE Crossed(p, e)

\* no debounce: every transition taken on the first qualifying sample
NeededOne(p) == 1

\* consecutive qualifying samples the transition that leaves p needs
Needed(p) == IF p = "Coast" THEN 1 ELSE DebounceCount

\* state_transition with launch detection left armed after landing
state_transition_rearmed(p, c, e, pv) ==
    LET c2 == IF Guard(p, e, pv) THEN c + 1 ELSE 0
    IN  IF p = "Landed" /\ e.acc > LaunchThreshold
        THEN [phase |-> "PoweredAscent", count |-> 0, edge |-> TRUE]
        ELSE IF p # "Landed" /\ Guard(p, e, pv) /\ c2 >= Needed(p)
        THEN [phase |-> NextPhase(p), count |-> 0, edge |-> TRUE]
        ELSE [phase |-> p, count |-> c2, edge |-> FALSE]

\* state_transition falling back from Apogee to Coast when the velocity
\* turns positive again
state_transition_flicker(p, c, e, pv) ==
    LET c2 == IF Guard(p, e, pv) THEN c + 1 ELSE 0
    IN  IF p = "Apogee" /\ e.vel > 0
        THEN [phase |-> "Coast", count |-> 0, edge |-> TRUE]
        ELSE IF p # "Landed" /\ Guard(p, e, pv) /\ c2 >= Needed(p)
        THEN [phase |-> NextPhase(p), count |-> 0, edge |-> TRUE]
        ELSE [phase |-> p, count |-> c2, edge |-> FALSE]

\* state_transition: one evaluation of the state machine
state_transition(p, c, e, pv) ==
    LET c2 == IF Guard(p, e, pv) THEN c + 1 ELSE 0
    IN  IF p # "Landed" /\ Guard(p, e, pv) /\ c2 >= Needed(p)
        THEN [phase |-> NextPhase(p), count |-> 0, edge |-> TRUE]
        ELSE [phase |-> p, count |-> c2, edge |-> FALSE]

----------------------------------------------------------------------------
(* controller: the apogee controller *)

Clamp(x, lo, hi) == IF x < lo THEN lo ELSE IF x > hi THEN hi ELSE x

\* ballistic projection of the peak altitude under the current drag
PredictedApogee(e, ext) ==
    e.alt + (IF e.vel > 0 THEN (e.vel * e.vel) \div (1 + ext) ELSE 0)

\* the control law: a positive error retracts, a negative error extends
Law(err, ig, pe) == -(Kp * err + Ki * ig + Kd * (err - pe))

\* step holding its last output outside Coast
controller_step_hold(p, e, ext, ig, pe) ==
    IF p # "Coast"
    THEN [extension |-> ext, integ |-> 0, prev_err |-> 0]
    ELSE LET err == TargetApogee - PredictedApogee(e, ext)
             raw == Law(err, ig + err, pe)
             saturated == raw < 0 \/ raw > ExtScale
             ig2 == IF saturated THEN ig ELSE ig + err
         IN  [extension |-> Clamp(Law(err, ig2, pe), 0, ExtScale),
              integ |-> ig2, prev_err |-> err]

\* step without the clamp of its output
controller_step_unclamped(p, e, ext, ig, pe) ==
    IF p # "Coast"
    THEN [extension |-> 0, integ |-> 0, prev_err |-> 0]
    ELSE LET err == TargetApogee - PredictedApogee(e, ext)
             raw == Law(err, ig + err, pe)
             saturated == raw < 0 \/ raw > ExtScale
             ig2 == IF saturated THEN ig ELSE ig + err
         IN  [extension |-> Law(err, ig2, pe), integ |-> ig2, prev_err |-> err]

\* step: one step of the controller
controller_step(p, e, ext, ig, pe) ==
    IF p # "Coast"
    THEN [extension |-> 0, integ |-> 0, prev_err |-> 0]
    ELSE LET err == TargetApogee - PredictedApogee(e, ext)
             raw == Law(err, ig + err, pe)
             saturated == raw < 0 \/ raw > ExtScale
             ig2 == IF saturated THEN ig ELSE ig + err
         IN  [extension |-> Clamp(Law(err, ig2, pe), 0, ExtScale),
              integ |-> ig2, prev_err |-> err]

\* get_angle: the linear calibration of the servo
get_angle(ext) == ServoRetracted + ext * ServoStep

----------------------------------------------------------------------------
(* acs.py *)

\* lines 32-36: the initialisation of the other modules
InitializeModules ==
    /\ pc = "initialize_modules"
    /\ est' = [alt |-> 0, vel |-> 0, acc |-> 0]
    /\ phase' = "Idle"
    /\ count' = 0
    /\ edge' = FALSE
    /\ prev_vel' = 0
    /\ prev_qual' = FALSE
    /\ extension' = 0
    /\ integ' = 0
    /\ prev_err' = 0
    /\ servo_pos' = ServoRetracted
    /\ pc' = "read_sensors"
    /\ UNCHANGED <<active_sensors, i, add_data_calls, store, writes, got, done,
                   servo_angle, servo_cleaned, utilVars>>

\* line 47
FilterData ==
    /\ pc = "filter_data"
    /\ est' \in EstSpace
    /\ done' = Append(done, "filter_data")
    /\ pc' = "state_transition"
    /\ UNCHANGED <<sensorVars, i, stateVars, ctrlVars, servo_angle, servo_pos,
                   servo_cleaned, utilVars>>

\* line 50
StateTransition ==
    /\ pc = "state_transition"
    /\ LET r == state_transition(phase, count, est, prev_vel)
       IN  /\ phase' = r.phase
           /\ count' = r.count
           /\ edge' = r.edge
           /\ prev_qual' = Crossed(r.phase, est)
    /\ prev_vel' = est.vel
    /\ done' = Append(done, "state_transition")
    /\ pc' = "controller_step"
    /\ UNCHANGED <<sensorVars, i, est, ctrlVars, servo_angle, servo_pos,
                   servo_cleaned, utilVars>>

\* line 53
ControllerStep ==
    /\ pc = "controller_step"
    /\ LET r == controller_step(phase, est, extension, integ, prev_err)
       IN  /\ extension' = r.extension
           /\ integ' = r.integ
           /\ prev_err' = r.prev_err
    /\ done' = Append(done, "controller_step")
    /\ pc' = "get_angle"
    /\ UNCHANGED <<sensorVars, i, est, stateVars, servo_angle, servo_pos,
                   servo_cleaned, utilVars>>

\* line 54
ControllerGetAngle ==
    /\ pc = "get_angle"
    /\ servo_angle' = get_angle(extension)
    /\ done' = Append(done, "get_angle")
    /\ pc' = "servo_rotate"
    /\ UNCHANGED <<sensorVars, i, est, stateVars, ctrlVars, servo_pos,
                   servo_cleaned, utilVars>>

\* the servo commanded only in a cycle with a phase edge
ServoRotateOnEdge ==
    /\ pc = "servo_rotate"
    /\ IF edge
       THEN servo_pos' = servo_angle /\ done' = Append(done, "servo_rotate")
       ELSE UNCHANGED <<servo_pos, done>>
    /\ pc' = "write_row"
    /\ UNCHANGED <<sensorVars, i, est, stateVars, ctrlVars, servo_angle,
                   servo_cleaned, utilVars>>

\* line 57
ServoRotate ==
    /\ pc = "servo_rotate"
    /\ servo_pos' = servo_angle
    /\ done' = Append(done, "servo_rotate")
    /\ pc' = "write_row"
    /\ UNCHANGED <<sensorVars, i, est, stateVars, ctrlVars, servo_angle,
                   servo_cleaned, utilVars>>

\* line 60, and back to the head of the while loop
ScribeWriteRow ==
    /\ pc = "write_row"
    /\ done' = Append(done, "write_row")
    /\ pc' = "read_sensors"
    /\ UNCHANGED <<sensorVars, i, flightVars, servo_cleaned, utilVars>>

\* the positions of the while loop of main
LoopPcs == {"read_sensors", "read_loop", "filter_data", "state_transition",
            "controller_step", "get_angle", "servo_rotate", "write_row"}

\* An exception in the loop (a stop signal delivered as KeyboardInterrupt,
\* or an error of the stage in progress): nothing in main catches it, so it
\* propagates through line 68 and the interpreter exits without reaching
\* line 69.
Interrupt ==
    /\ pc \in LoopPcs
    /\ pc' = "exited"
    /\ UNCHANGED <<sensorVars, i, done, flightVars, servo_cleaned, utilVars>>

----------------------------------------------------------------------------
(* The program *)

\* the two configurations of acs.py, lines 21 and 22
ConfiguredLists == {<<"IMU", "Accelerometer", "Altimeter">>, ConfiguredSensors}

\* the state of the flight computer after line 23, for the sensor list l
InitProgram(l) ==
    /\ active_sensors = l
    /\ pc = "initialize_sensors"
    /\ i = 0
    /\ add_data_calls = <<>>
    /\ store = <<>>
    /\ writes = <<>>
    /\ got = [e \in Elements |-> NotRead]
    /\ done = <<>>
    /\ est = [alt |-> 0, vel |-> 0, acc |-> 0]
    /\ phase = "Idle"
    /\ count = 0
    /\ edge = FALSE
    /\ prev_vel = 0
    /\ prev_qual = FALSE
    /\ extension = 0
    /\ integ = 0
    /\ prev_err = 0
    /\ servo_angle = ServoRetracted
    /\ servo_pos = ServoRetracted
    /\ servo_cleaned = FALSE

\* the state after line 23, for the sensor list l; string_to_int not called
InitWith(l) ==
    /\ InitProgram(l)
    /\ in_str = <<>>
    /\ out = NotCalled

Init == \E l \in ConfiguredLists : InitWith(l)

Next ==
    \/ InitializeTimer
    \/ InitializeSensor
    \/ InitializeSensorsReturn
    \/ InitializeModules
    \/ ReadTime
    \/ ReadImu
    \/ ReadAccelerometer
    \/ ReadAltimeter
    \/ ReadSensorsReturn
    \/ FilterData
    \/ StateTransition
    \/ ControllerStep
    \/ ControllerGetAngle
    \/ ServoRotate
    \/ ScribeWriteRow
    \/ Interrupt

Spec == Init /\ [][Next]_vars

----------------------------------------------------------------------------
(* sensors.py on its own: initialize_sensors, then read_sensors again and  *)
(* again, for every sensor list                                            *)

InitSensors == \E l \in ListsUpTo(MaxSensors) : InitWith(l)

\* the caller calls read_sensors once initialize_sensors has returned, and
\* again after each return
CallReadSensors ==
    /\ pc \in {"initialize_modules", "filter_data"}
    /\ pc' = "read_sensors"
    /\ UNCHANGED <<sensorVars, i, done, flightVars, servo_cleaned, utilVars>>

NextSensors ==
    \/ InitializeTimer
    \/ InitializeSensor
    \/ InitializeSensorsReturn
    \/ CallReadSensors
    \/ ReadTime
    \/ ReadImu
    \/ ReadAccelerometer
    \/ ReadAltimeter
    \/ ReadOther
    \/ ReadSensorsReturn

SpecSensors == InitSensors /\ [][NextSensors]_vars

----------------------------------------------------------------------------
(* utils.py: string_to_int, applied to every string of at most MaxLen     *)
(* characters of Alphabet                                                  *)

\* A string is the sequence of its characters.  The characters: the ASCII
\* digits 0, 1 and 7, the letter a, the minus sign, ARABIC-INDIC DIGIT THREE
\* and SUPERSCRIPT TWO.
Alphabet == {"0", "1", "7", "a", "-", "arabic3", "super2"}

\* str.isdigit: true of the decimal digits of every script and of the
\* digits, such as the superscripts, that are not decimal
IsDigit(c) == c \in {"0", "1", "7", "arabic3", "super2"}

\* the characters int() reads as a decimal digit
IsDecimal(c) == c \in {"0", "1", "7", "arabic3"}

DigitValue(c) ==
    CASE c = "0" -> 0
      [] c = "1" -> 1
      [] c = "7" -> 7
      [] c = "arabic3" -> 3
      [] c = "super2" -> 2

\* all strings of at most n characters
RECURSIVE StringsUpTo(_)
StringsUpTo(n) ==
    IF n = 0 THEN {<<>>}
    ELSE LET shorter == StringsUpTo(n - 1)
         IN  shorter \cup {Append(s, c) : s \in {x \in shorter : Len(x) = n - 1},
                                          c \in Alphabet}

\* int(s): ValueError for the empty string and for a string with a
\* character that is no decimal digit
RECURSIVE PyIntValue(_)
PyIntValue(s) ==
    IF s = <<>> THEN 0
    ELSE PyIntValue(SubSeq(s, 1, Len(s) - 1)) * 10 + DigitValue(s[Len(s)])

PyInt(s) ==
    IF s = <<>> \/ \E k \in DOMAIN s : ~IsDecimal(s[k])
    THEN [status |-> "ValueError"]
    ELSE [status |-> "ok", value |-> PyIntValue(s)]

\* lines 11-14
string_to_int(s) ==
    LET int_vals == SelectSeq(s, IsDigit)
    IN  PyInt(int_vals)

CallStringToInt ==
    /\ out = NotCalled
    /\ out' = string_to_int(in_str)
    /\ UNCHANGED <<in_str, sensorVars, pc, i, done, flightVars, servo_cleaned>>

InitUtils ==
    /\ InitProgram(ConfiguredSensors)
    /\ in_str \in StringsUpTo(MaxLen)
    /\ out = NotCalled

NextUtils == CallStringToInt

SpecUtils == InitUtils /\ [][NextUtils]_vars

----------------------------------------------------------------------------
(* Properties *)

Range(s) == {s[k] : k \in DOMAIN s}

IsPrefix(s, t) == Len(s) <= Len(t) /\ \A k \in 1..Len(s) : s[k] = t[k]

NoRepeat(s) == \A j, k \in DOMAIN s : j # k => s[j] # s[k]

\* the stages of one cycle, lines 44-60
StageOrder == <<"read_sensors", "filter_data", "state_transition",
                "controller_step", "get_angle", "servo_rotate", "write_row">>

\* the stage the program is in at position p of the loop
StageOf(p) == IF p = "read_loop" THEN "read_sensors" ELSE p

StageDone(s) == s \in Range(done)

\* the channel that belongs to sensing element e
ChannelOf(e) ==
    CASE e = "adxl" -> "adxl_acceleration"
      [] e = "mpl" -> "mpl_altitude"
      [] e = "imu_accel" -> "mpu_acceleration"
      [] e = "imu_gyro" -> "mpu_gyroscope"
      [] e = "imu_magnet" -> "mpu_magnetometer"

\* the names of l that the dispatch of sensors.py knows
KnownSensors(l) == SelectSeq(l, LAMBDA s : s \in {"IMU", "Accelerometer", "Altimeter"})

\* C1: whenever the control loop has stopped, servo.clean_servo has run
\* (the actuator was commanded to the retracted position before exit).
C1_SafeOnExit == pc = "exited" => servo_cleaned

\* C2: the stages of a cycle finish in the fixed order read_sensors,
\* filter_data, state_transition, controller.step, controller.get_angle,
\* servo.rotate, scribe.write_row; the stage in progress is the one that
\* follows the finished ones; a new cycle starts only after write_row; and
\* from filter_data on, every registered channel has been written in this
\* cycle.
C2_StageOrder ==
    /\ IsPrefix(done, StageOrder)
    /\ pc = "read_sensors" => done \in {<<>>, StageOrder}
    /\ pc \in LoopPcs \ {"read_sensors"} =>
          /\ Len(done) < Len(StageOrder)
          /\ StageOrder[Len(done) + 1] = StageOf(pc)
    /\ pc \in LoopPcs \ {"read_sensors", "read_loop"} => Range(writes) = Registered

C2_Witness == pc = "read_sensors" /\ done = StageOrder /\ phase = "Coast"

\* C3: no step of the program moves the phase to an earlier one in the
\* order Idle < PoweredAscent < Coast < Apogee < Descent < Landed.
C3_Monotone == [][Rank(phase') >= Rank(phase)]_vars

C3_Witness == phase = "Landed" /\ edge /\ pc = "controller_step"

\* C4: a device read that fails does not stop the loop, the channel of the
\* element whose read failed holds the zero value of its arity, and when
\* read_sensors returns every registered channel has been written.
C4_FailedReadZeroFilled ==
    /\ \A e \in Elements :
          got[e].status = "failed" =>
              /\ pc # "exited"
              /\ ChannelOf(e) \in Registered
              /\ store[ChannelOf(e)] = ZeroOf(ChannelOf(e))
    /\ pc = "filter_data" => Range(writes) = Registered

\* C5: when the loop has stopped, the store holds all of the last cycle's
\* channel writes or none of them.
C5_NoPartialUpdate ==
    pc = "exited" => (writes = <<>> \/ Range(writes) = Registered)

\* C6: in a cycle whose resolved phase is not Coast, the extension the
\* controller step produced is 0 and the angle sent to the servo is the
\* retracted one.
C6_RetractedOutsideCoast ==
    phase # "Coast" =>
        /\ StageDone("controller_step") => extension = 0
        /\ StageDone("servo_rotate") => servo_pos = ServoRetracted

C6_Witness == phase = "Apogee" /\ edge /\ StageDone("servo_rotate")

\* C7: the extension returned by the controller step lies within
\* [0.0, 1.0], that is within 0..ExtScale in the units of the model.
C7_ExtensionInRange == extension \in 0..ExtScale

\* a Coast step whose negative error drives the output to full extension
C7_Witness ==
    /\ phase = "Coast"
    /\ pc = "get_angle"
    /\ extension = ExtScale
    /\ prev_err < 0

C9_LandedTerminal ==
    [][phase = "Landed" =>
         /\ phase' = "Landed"
         /\ (pc = "state_transition" /\ pc' = "controller_step") => ~edge']_vars

C9_Witness ==
    /\ phase = "Landed"
    /\ ~edge
    /\ pc = "controller_step"
    /\ est.acc > LaunchThreshold

\* C10 as stated: add_data is never called twice with the same name.
C10_AddDataOncePerName == NoRepeat(add_data_calls)

\* C10 amended: when none of IMU, Accelerometer and Altimeter appears more
\* than once in the active-sensor list, add_data is never called twice with
\* the same name.
C10_AddDataOncePerNameNoRepeat ==
    NoRepeat(KnownSensors(active_sensors)) => NoRepeat(add_data_calls)

C10_Witness ==
    /\ pc = "initialize_modules"
    /\ NoRepeat(KnownSensors(active_sensors))
    /\ Len(KnownSensors(active_sensors)) = 3
    /\ Len(add_data_calls) = 6

\* initialize_sensors has returned
Initialized == pc \notin {"initialize_sensors", "initialize_loop", "aborted"}

\* the sensor types of the active-sensor list
ActiveSet == Range(active_sensors)

\* the active-sensor list is a subset of {IMU, Accelerometer, Altimeter}
IsSubsetList ==
    /\ NoRepeat(active_sensors)
    /\ ActiveSet \subseteq {"IMU", "Accelerometer", "Altimeter"}

\* C11 as stated: after initialize_sensors the number of registered
\* channels is 1 plus the number of active sensor types.
C11_OneChannelPerSensor ==
    (Initialized /\ IsSubsetList) =>
        Cardinality(Registered) = 1 + Cardinality(ActiveSet)

\* C11 amended: after initialize_sensors the number of registrations, and
\* of registered channels, is 1 for the time channel, plus 1 for each of
\* Accelerometer and Altimeter that is active, plus 3 when IMU is active.
C11_ChannelCount ==
    (Initialized /\ IsSubsetList) =>
        LET n == 1 + Cardinality(ActiveSet \ {"IMU"})
                   + (IF "IMU" \in ActiveSet THEN 3 ELSE 0)
        IN  Len(add_data_calls) = n /\ Cardinality(Registered) = n

C11_Witness ==
    /\ Initialized
    /\ IsSubsetList
    /\ ActiveSet = {"IMU", "Accelerometer", "Altimeter"}
    /\ Cardinality(Registered) = 6

\* how many times stage s finished in the current cycle
TimesDone(s) == Cardinality({k \in DOMAIN done : done[k] = s})

\* the position of stage s among the finished stages of the cycle
WhenDone(s) == CHOOSE k \in DOMAIN done : done[k] = s

\* a cycle has run to its end
CycleComplete == pc = "read_sensors" /\ done # <<>>

\* C12: a cycle that completes has called servo.rotate exactly once, with
\* the angle get_angle returned after that cycle's controller step, and
\* scribe.write_row exactly once, after the rotate.
C12_OneCommandOneRecord ==
    CycleComplete =>
        /\ \A s \in {"controller_step", "get_angle", "servo_rotate", "write_row"} :
              TimesDone(s) = 1
        /\ WhenDone("controller_step") < WhenDone("get_angle")
        /\ WhenDone("get_angle") < WhenDone("servo_rotate")
        /\ WhenDone("servo_rotate") < WhenDone("write_row")
        /\ servo_pos = get_angle(extension)

C12_Witness ==
    /\ CycleComplete
    /\ phase = "Coast"
    /\ ~edge
    /\ extension > 0
    /\ servo_pos = get_angle(extension)

\* C13: a step of read_sensors registers no channel, removes none and
\* leaves the arity of every channel as it was (no write is refused for
\* its arity).
C13_AcquisitionKeepsChannels ==
    [][(pc \in {"read_sensors", "read_loop"}) =>
         (/\ pc' # "exited"
          /\ add_data_calls' = add_data_calls
          /\ DOMAIN store' = DOMAIN store
          /\ \A c \in DOMAIN store : Arity(store'[c]) = Arity(store[c]))]_vars

\* read_sensors has returned with six channels written, one a failed read
C13_Witness ==
    /\ pc = "filter_data"
    /\ Len(writes) = 6
    /\ got["mpl"].status = "failed"
    /\ Registered = Range(add_data_calls)

\* C14: after read_imu each IMU channel holds what the read of its own
\* sensing element returned, or the zero vector when that read failed.
C14_ImuChannelsHoldOwnReading ==
    \A e \in {"imu_accel", "imu_gyro", "imu_magnet"} :
        (got[e].status # "not_read" /\ pc # "exited") =>
            store[ChannelOf(e)] = ValueOr(got[e], <<0, 0, 0>>)

\* the channels that belong to the sensors of list l, and the time channel
ChannelsFor(l) ==
    {"time"}
    \cup (IF "IMU" \in Range(l)
          THEN {"mpu_acceleration", "mpu_gyroscope", "mpu_magnetometer"} ELSE {})
    \cup (IF "Accelerometer" \in Range(l) THEN {"adxl_acceleration"} ELSE {})
    \cup (IF "Altimeter" \in Range(l) THEN {"mpl_altitude"} ELSE {})

\* C15: no write of read_sensors fails; every channel it writes was
\* registered by initialize_sensors; and a name outside {IMU, Accelerometer,
\* Altimeter} adds nothing to what is registered nor to what is written.
C15_WritesAreRegistered ==
    /\ pc # "exited"
    /\ Range(writes) \subseteq Range(add_data_calls)
    /\ Initialized => Registered = ChannelsFor(active_sensors)
    /\ pc = "filter_data" => Range(writes) = ChannelsFor(active_sensors)

C15_Witness ==
    /\ pc = "filter_data"
    /\ "GPS" \in Range(active_sensors)
    /\ Len(writes) = 5

\* C16: in a call of read_sensors the time channel is the first channel
\* written, no channel is written twice, and when read_sensors has
\* returned every registered channel has been written in this call.
C16_TimeFirstEachOnce ==
    /\ writes # <<>> => writes[1] = "time"
    /\ NoRepeat(writes)
    /\ pc = "filter_data" => Range(writes) = Registered

C16_Witness ==
    /\ pc = "filter_data"
    /\ Len(writes) = 6
    /\ writes[1] = "time"
    /\ writes[6] = "adxl_acceleration"

\* the digit characters of s, in their order
DigitsOf(s) == SelectSeq(s, LAMBDA c : c \notin {"a", "-"})

\* the number whose decimal digits are the characters of s
RECURSIVE NumberOf(_)
NumberOf(s) ==
    IF s = <<>> THEN 0
    ELSE DigitValue(Head(s)) * 10 ^ (Len(s) - 1) + NumberOf(Tail(s))

\* C17: string_to_int fails when its argument has no digit character, and
\* otherwise returns the number whose decimal digits are the digit
\* characters of the argument in their order, which is never negative.
C17_DigitsToInteger ==
    out.status # "not_called" =>
        IF DigitsOf(in_str) = <<>>
        THEN out.status = "ValueError"
        ELSE /\ out.status = "ok"
             /\ out.value = NumberOf(DigitsOf(in_str))
             /\ out.value >= 0

====
